---- MODULE Spec2Model ----
(***************************************************************************)
(* Model of examples/debug_lines_ortho/main.rs: the ExampleGraph           *)
(* implementation of GraphCreator (rebuild / builder), and the event       *)
(* handler of ExampleState.                                                *)
(*                                                                         *)
(* Option<T> is modelled as a sequence of length at most one:              *)
(* None == <<>>, Some(x) == <<x>>.  Identifiers handed out by the graph    *)
(* builder (ImageId, NodeId) are positions in the images / nodes           *)
(* sequences, counted from 1.                                              *)
(***************************************************************************)
EXTENDS Integers, Sequences, FiniteSets

\* ---------------------------------------------------------------- bounds
\* Number of GraphCreator calls (rebuild or builder) in one run.
MaxCalls == 5

\* Number of events handed to ExampleState::handle_event in one run.
MaxEvents == 3

\* ------------------------------------------------------------ value sets
None == <<>>
Some(x) == <<x>>

\* ScreenDimensions values the window may report (width, height).
Dim(w, h) == [width |-> w, height |-> h]
DimValues == {Dim(800, 600), Dim(1024, 768), Dim(0, 0), Dim(-1, 600)}
\* What res.try_fetch::<ScreenDimensions>() can yield.
Observations == {None} \cup {Some(d) : d \in DimValues}

\* Formats factory.get_surface_format may return.
Formats == {"Rgba8Unorm", "Bgra8Unorm"}
DepthFormat == "D32Sfloat"

\* ------------------------------------------------------------------ state
VARIABLES
    dimensions,      \* ExampleGraph.dimensions : Option<ScreenDimensions>
    surface_format,  \* ExampleGraph.surface_format : Option<Format>
    dirty,           \* ExampleGraph.dirty : bool
    queried,         \* formats returned so far by factory.get_surface_format
    history,         \* the calls made so far, each with its outcome
    transitions      \* the events handled so far, each with the Trans returned

vars == <<dimensions, surface_format, dirty, queried, history, transitions>>

\* ------------------------------------------------------- rebuild (176-186)
\* Variant: only presence is compared, the values are not.
DimensionsDifferPresence(old, new) == (old = None) # (new = None)

\* line 180: Option<&ScreenDimensions> compared by value.
DimensionsDiffer(old, new) == old # new

\* Variant: reporting a pending rebuild consumes it.
RebuildDirtyConsumed(old, d, new) == DimensionsDiffer(old, new)

\* line 181: dirty after the call.
RebuildDirty(old, d, new) == IF DimensionsDiffer(old, new) THEN TRUE ELSE d

\* Variant: the observed value is not stored.
RebuildDimensionsKept(old, new) == old

\* line 182: dimensions after the call.
RebuildDimensions(old, new) == IF DimensionsDiffer(old, new) THEN new ELSE old

\* Variant: no early return, the rebuild is reported on the tick of the change.
RebuildReturnNoDebounce(old, d, new) == IF DimensionsDiffer(old, new) THEN TRUE ELSE d

\* Variant: the flag is never reported.
RebuildReturnNever(old, d, new) == FALSE

\* Variant: stable dimensions always report a rebuild.
RebuildReturnStable(old, d, new) == ~DimensionsDiffer(old, new)

\* lines 183, 185: the value returned.
RebuildReturn(old, d, new) == IF DimensionsDiffer(old, new) THEN FALSE ELSE d

\* ------------------------------------------------------- builder (188-229)
\* Variant: the flag is not cleared.
BuilderDirtyKept(d) == d

\* line 189.
BuilderDirty(d) == FALSE

\* Variant: the format is queried on every build.
ClosureRunsAlways(cache) == TRUE

\* line 197: get_or_insert_with runs its closure only on None.
ClosureRuns(cache) == cache = None

\* lines 195-197: Option::get_or_insert_with.
GetOrInsertWith(cache, fmt) == IF ClosureRuns(cache) THEN Some(fmt) ELSE cache

\* Variant: the conversion keeps the sign.
AsU32Signed(x) == x

\* `x as u32` on a float: negative values saturate to 0.  Every value of
\* DimValues is integral and below u32::MAX, so the upper end is never met.
AsU32(x) == IF x < 0 THEN 0 ELSE x

\* Variant: width and height exchanged.
WindowKindSwapped(d) ==
    [width |-> AsU32(d.height), height |-> AsU32(d.width), layers |-> 1, samples |-> 1]

\* lines 199-200: image::Kind::D2(width, height, layers, samples).
WindowKind(d) ==
    [width |-> AsU32(d.width), height |-> AsU32(d.height), layers |-> 1, samples |-> 1]

\* Variant: with_dependency(opaque) left out.
PresentDependenciesNone(opaque) == {}

\* line 226: the dependencies given to the present node.
PresentDependencies(opaque) == {opaque}

\* Variant: the two attachments exchanged.
SubpassAttachmentsSwapped(color, depth) ==
    [colors |-> <<depth>>, depth_stencil |-> <<color>>]

\* lines 220-221: with_color(color).with_depth_stencil(depth).
SubpassAttachments(color, depth) ==
    [colors |-> <<color>>, depth_stencil |-> <<depth>>]

\* Variant: the draw group is added only when a rebuild was pending.
SubpassGroupsIfDirty(group) == IF dirty THEN <<group>> ELSE <<>>

\* line 219: with_group(...), once.
SubpassGroups(group) == <<group>>

\* order: what was created in the builder, in creation order.
NoGraph == [images |-> <<>>, nodes |-> <<>>, order |-> <<>>]

\* lines 202-228: the GraphBuilder returned.
BuildGraph(d, fmt) ==
    LET kind == WindowKind(d)
        colorImage == [kind |-> kind, levels |-> 1, format |-> fmt,
                       clear |-> "Color(0,0,0,1)"]
        depthImage == [kind |-> kind, levels |-> 1, format |-> DepthFormat,
                       clear |-> "DepthStencil(1,0)"]
        color == 1
        depth == 2
        attachments == SubpassAttachments(color, depth)
        pass == [type |-> "RenderPass", groups |-> SubpassGroups("DrawDebugLines"),
                 inputs |-> <<>>, colors |-> attachments.colors,
                 depth_stencil |-> attachments.depth_stencil,
                 image |-> <<>>, dependencies |-> {}]
        opaque == 1
        present == [type |-> "Present", groups |-> <<>>,
                    inputs |-> <<>>, colors |-> <<>>, depth_stencil |-> <<>>,
                    image |-> <<color>>, dependencies |-> PresentDependencies(opaque)]
        present_id == 2
    IN  [images |-> <<colorImage, depthImage>>, nodes |-> <<pass, present>>,
         order |-> << [kind |-> "image", id |-> color], [kind |-> "image", id |-> depth],
                      [kind |-> "node", id |-> opaque], [kind |-> "node", id |-> present_id] >>]

\* --------------------------------------------------------------- history
\* One call: its input (obs for rebuild, offered for builder: the format the
\* factory would return), its result (value for rebuild, outcome and graph for
\* builder) and the fields of ExampleGraph when it ended.
Call(op, obs, offered, value, outcome, graph, dims, d, fmt) ==
    [op |-> op, obs |-> obs, offered |-> offered, value |-> value,
     outcome |-> outcome, graph |-> graph,
     dims |-> dims, dirty |-> d, fmt |-> fmt]

Last(s) == s[Len(s)]

\* A panic (unwrap on None, ReadExpect on a missing resource) unwinds out of
\* the rendering system: no further call is made on this ExampleGraph.
Panicked == history # <<>> /\ Last(history).outcome # "ok"

\* The fields as they were before call number i.
PreDims(i) == IF i = 1 THEN None ELSE history[i - 1].dims
PreDirty(i) == IF i = 1 THEN FALSE ELSE history[i - 1].dirty
PreFormat(i) == IF i = 1 THEN None ELSE history[i - 1].fmt

\* ------------------------------------------------------------------- Init
\* #[derive(Default)] (168-173).
Init ==
    /\ dimensions = None
    /\ surface_format = None
    /\ dirty = FALSE
    /\ queried = <<>>
    /\ history = <<>>
    /\ transitions = <<>>

\* ---------------------------------------------------------------- actions
\* fn rebuild(&mut self, res) -> bool, with res holding `new_dimensions`.
Rebuild(new_dimensions) ==
    /\ ~Panicked
    /\ Len(history) < MaxCalls
    /\ dirty' = RebuildDirty(dimensions, dirty, new_dimensions)
    /\ dimensions' = RebuildDimensions(dimensions, new_dimensions)
    /\ UNCHANGED <<surface_format, queried, transitions>>
    /\ history' = Append(history,
            Call("rebuild", new_dimensions, None,
                 RebuildReturn(dimensions, dirty, new_dimensions), "ok", NoGraph,
                 dimensions', dirty', surface_format'))

\* fn builder(&mut self, factory, res) -> GraphBuilder.
\*   available: whether the Window resource can be fetched and the factory
\*              yields a surface and a format for it (lines 191-197);
\*   fmt:       the format the factory returns if asked.
Builder(available, fmt) ==
    /\ ~Panicked
    /\ Len(history) < MaxCalls
    /\ dirty' = BuilderDirty(dirty)
    /\ UNCHANGED <<dimensions, transitions>>
    /\ IF ~available
       THEN /\ UNCHANGED <<surface_format, queried>>
            /\ history' = Append(history,
                    Call("builder", None, Some(fmt), FALSE, "SurfaceUnavailable", NoGraph,
                         dimensions', dirty', surface_format'))
       ELSE /\ surface_format' = GetOrInsertWith(surface_format, fmt)
            /\ queried' = IF ClosureRuns(surface_format) THEN Append(queried, fmt) ELSE queried
            /\ IF dimensions = None
               THEN history' = Append(history,
                        Call("builder", None, Some(fmt), FALSE, "ProgrammingError", NoGraph,
                             dimensions', dirty', surface_format'))
               ELSE history' = Append(history,
                        Call("builder", None, Some(fmt), FALSE, "ok",
                             BuildGraph(dimensions[1], surface_format'[1]),
                             dimensions', dirty', surface_format'))

\* The two operations, called in any order.
Next ==
    \/ \E d \in Observations : Rebuild(d)
    \/ \E a \in BOOLEAN, f \in Formats : Builder(a, f)

Spec == Init /\ [][Next]_vars

\* The frame driver (game.run(), line 164, driving the RenderingSystem of
\* lines 159-161): on every tick it calls rebuild and then, iff rebuild
\* returned true, builder; it goes on ticking for as long as nothing panics.
RebuildRequested ==
    history # <<>> /\ Last(history).op = "rebuild" /\ Last(history).value

DriverTick(d) == ~RebuildRequested /\ Rebuild(d)

DriverBuild(a, f) == RebuildRequested /\ Builder(a, f)

DriverNext ==
    \/ \E d \in Observations : DriverTick(d)
    \/ \E a \in BOOLEAN, f \in Formats : DriverBuild(a, f)

SpecLive == Init /\ [][DriverNext]_vars /\ WF_vars(DriverNext)

\* ------------------------------------------------ handle_event (130-144)
\* StateEvent: Window(winit::Event), Ui(..) or Input(..), with its payload.
StateEvent(variant, what, key, state) ==
    [variant |-> variant, what |-> what, key |-> key, state |-> state]

StateEvents ==
    { StateEvent("Window", "CloseRequested", "-", "-"),
      StateEvent("Window", "KeyboardInput", "Escape", "Pressed"),
      StateEvent("Window", "KeyboardInput", "Escape", "Released"),
      StateEvent("Window", "KeyboardInput", "Space", "Pressed"),
      StateEvent("Window", "Resized", "-", "-"),
      StateEvent("Input", "KeyPressed", "Escape", "Pressed"),
      StateEvent("Ui", "Click", "-", "-") }

\* amethyst::input::is_close_requested on a winit event.
IsCloseRequested(event) == event.what = "CloseRequested"

\* amethyst::input::is_key_down on a winit event.
IsKeyDown(event, key) ==
    event.what = "KeyboardInput" /\ event.key = key /\ event.state = "Pressed"

\* Variant: any key going down quits.
TransAnyKey(event) ==
    IF event.variant = "Window"
    THEN IF IsCloseRequested(event) \/ \E k \in {"Escape", "Space"} : IsKeyDown(event, k)
         THEN "Quit" ELSE "None"
    ELSE "None"

\* lines 135-143: the Trans returned.
Trans(event) ==
    IF event.variant = "Window"
    THEN IF IsCloseRequested(event) \/ IsKeyDown(event, "Escape")
         THEN "Quit" ELSE "None"
    ELSE "None"

\* Trans::Quit ends the application: no event is handled after it.
HasQuit == transitions # <<>> /\ Last(transitions).trans = "Quit"

\* fn handle_event(&mut self, _, event) -> SimpleTrans.
HandleEvent(event) ==
    /\ ~HasQuit
    /\ Len(transitions) < MaxEvents
    /\ transitions' = Append(transitions, [event |-> event, trans |-> Trans(event)])
    /\ UNCHANGED <<dimensions, surface_format, dirty, queried, history>>

NextEvents == \E e \in StateEvents : HandleEvent(e)

SpecEvents == Init /\ [][NextEvents]_vars

\* ----------------------------------------------------------- observations
\* The rebuild calls made so far, in order: Ticks[k] is tick k - 1.
IsRebuild(e) == e.op = "rebuild"
Ticks == SelectSeq(history, IsRebuild)

\* The builder calls that returned a graph.
Built == {i \in 1..Len(history) : history[i].op = "builder" /\ history[i].outcome = "ok"}

\* ------------------------------------------------------------------ claims
\* The calls so far follow the frame driver: builder is called exactly after
\* the rebuild calls that returned true.
DriverConformant ==
    \A i \in 1..Len(history) :
        history[i].op = "builder" <=>
            (i > 1 /\ history[i - 1].op = "rebuild" /\ history[i - 1].value)

\* C1 as stated: on tick i >= 1 (Ticks[k], k = i + 1) rebuild returns true iff
\* d_i = d_{i-1} and d_i # d_{i-2}, or i = 1 and d_1 = d_0.
C1_DebounceAsStated ==
    DriverConformant =>
        \A k \in 2..Len(Ticks) :
            Ticks[k].value <=>
                /\ Ticks[k].obs = Ticks[k - 1].obs
                /\ (k = 2 \/ Ticks[k].obs # Ticks[k - 2].obs)

\* C1 (amended): with builder called after every tick that returned true,
\* rebuild returns true on tick i >= 1 iff d_i = d_{i-1} and d_i # d_{i-2}, or
\* i = 1 and d_1 = d_0 is a concrete value; tick 0 returns false.
C1_Debounce ==
    DriverConformant =>
        \A k \in 1..Len(Ticks) :
            Ticks[k].value <=>
                /\ k >= 2
                /\ Ticks[k].obs = Ticks[k - 1].obs
                /\ IF k = 2 THEN Ticks[1].obs # None
                            ELSE Ticks[k].obs # Ticks[k - 2].obs

\* A stabilisation was reported once, built, and not reported again on the
\* next stable tick.
C1_Witness ==
    /\ DriverConformant
    /\ \E k \in 2..Len(Ticks) - 1 :
          /\ Ticks[k].value
          /\ Ticks[k + 1].obs = Ticks[k].obs
          /\ ~Ticks[k + 1].value

Scenario == <<None, Some(Dim(800, 600)), Some(Dim(800, 600)), Some(Dim(1024, 768))>>
ScenarioResults == <<FALSE, FALSE, TRUE, FALSE>>

\* The calls so far are the scenario's ticks, with builder called, if at all,
\* only after the third tick.
FollowsScenario ==
    /\ Len(Ticks) <= Len(Scenario)
    /\ \A k \in 1..Len(Ticks) : Ticks[k].obs = Scenario[k]
    /\ \A i \in 1..Len(history) : i <= 3 => history[i].op = "rebuild"

\* C2: the observations [None, (800,600), (800,600), (1024,768)] make rebuild
\* return [false, false, true, false], whether or not builder is called after
\* the tick that returned true.
C2_Scenario ==
    FollowsScenario => \A k \in 1..Len(Ticks) : Ticks[k].value = ScenarioResults[k]

\* The whole scenario ran, with a build after the third tick.
C2_Witness ==
    /\ FollowsScenario
    /\ Len(Ticks) = 4
    /\ Built # {}

\* C3: after a builder call that returned a graph, every rebuild call returns
\* false as long as each observation since equals the dimensions held at the
\* build.
C3_DirtyClearsOnBuild ==
    \A i \in Built : \A j \in (i + 1)..Len(history) :
        ( /\ history[j].op = "rebuild"
          /\ \A k \in (i + 1)..j :
                history[k].op = "rebuild" => history[k].obs = history[i].dims )
        => ~history[j].value

\* A build consumed a pending rebuild and two unchanged ticks followed.
C3_Witness ==
    \E i \in Built :
        /\ PreDirty(i)
        /\ i + 2 <= Len(history)
        /\ \A k \in {i + 1, i + 2} :
              history[k].op = "rebuild" /\ history[k].obs = history[i].dims

\* C4: the cached format is absent until a builder call, the factory's
\* get_surface_format is called at most once, the cache holds the format
\* returned by that call from then on, and every graph uses it.
C4_FormatCaching ==
    /\ Len(queried) <= 1
    /\ surface_format = IF queried = <<>> THEN None ELSE Some(queried[1])
    /\ (\A i \in 1..Len(history) : history[i].op # "builder") => surface_format = None
    /\ \A i \in 1..Len(history) :
          (history[i].op = "builder" /\ history[i].outcome # "SurfaceUnavailable")
          => history[i].fmt = Some(queried[1])
    /\ \A i \in Built : history[i].graph.images[1].format = queried[1]

\* Two graphs were built and the factory would have returned another format
\* for the second.
C4_Witness ==
    \E i, j \in Built :
        /\ i < j
        /\ history[i].offered = Some(queried[1])
        /\ history[j].offered # Some(queried[1])

\* C5: in every graph returned by builder, the present node depends on the
\* render pass that writes the colour image it presents.
C5_PresentAfterDraw ==
    \A i \in Built :
        LET g == history[i].graph IN
        \A n \in 1..Len(g.nodes) :
            g.nodes[n].type = "Present" =>
                \E m \in g.nodes[n].dependencies :
                    /\ m \in 1..Len(g.nodes)
                    /\ g.nodes[m].type = "RenderPass"
                    /\ \E c \in 1..Len(g.nodes[m].colors) :
                          g.nodes[m].colors[c] = g.nodes[n].image[1]

\* A graph with a present node was returned.
C5_Witness ==
    \E i \in Built :
        \E n \in 1..Len(history[i].graph.nodes) :
            history[i].graph.nodes[n].type = "Present"

\* C6 as stated: a builder call made while dimensions is absent (and the
\* surface is available) fails with ProgrammingError, returns no graph and
\* leaves dirty and the cached format as they were.
C6_FatalPrecondition ==
    \A i \in 1..Len(history) :
        ( /\ history[i].op = "builder"
          /\ history[i].outcome # "SurfaceUnavailable"
          /\ PreDims(i) = None )
        => /\ history[i].outcome = "ProgrammingError"
           /\ history[i].graph = NoGraph
           /\ history[i].dirty = PreDirty(i)
           /\ history[i].fmt = PreFormat(i)

\* C7 as stated: a builder call that fails for want of a surface leaves
\* dimensions and the cached format unchanged and does not clear dirty.
C7_SurfaceUnavailable ==
    \A i \in 1..Len(history) :
        (history[i].op = "builder" /\ history[i].outcome = "SurfaceUnavailable")
        => /\ history[i].dims = PreDims(i)
           /\ history[i].fmt = PreFormat(i)
           /\ (PreDirty(i) => history[i].dirty)

\* The step is a call of rebuild.
RebuildStep == history' # history /\ Last(history').op = "rebuild"

\* The step is a call of builder.
BuilderStep == history' # history /\ Last(history').op = "builder"

\* C8: a rebuild call whose observation differs from dimensions stores the
\* observation, sets dirty and returns false, whatever dirty was.
C8_ChangeBranch ==
    [][ (RebuildStep /\ Last(history').obs # dimensions)
        => /\ dimensions' = Last(history').obs
           /\ dirty' = TRUE
           /\ Last(history').value = FALSE ]_vars

\* A change from a concrete value to absent was observed while a rebuild was
\* already pending.
C8_Witness ==
    /\ Len(history) >= 2
    /\ Last(history).op = "rebuild"
    /\ Last(history).obs = None
    /\ PreDims(Len(history)) # None
    /\ PreDirty(Len(history))
    /\ dirty

\* C9: a rebuild call whose observation equals dimensions returns dirty and
\* changes no field; no rebuild call changes the cached format.
C9_StableBranch ==
    [][ RebuildStep
        => /\ surface_format' = surface_format
           /\ (Last(history').obs = dimensions
               => /\ Last(history').value = dirty
                  /\ dirty' = dirty
                  /\ dimensions' = dimensions) ]_vars

\* A stable tick reported a pending rebuild, with a format already cached.
C9_Witness ==
    /\ Len(history) >= 2
    /\ Last(history).op = "rebuild"
    /\ Last(history).obs = PreDims(Len(history))
    /\ Last(history).value
    /\ surface_format # None

\* C10: dirty goes from true to false only in a builder call and from false
\* to true only in a rebuild call whose observation differs from dimensions.
C10_DirtyTransitions ==
    [][ /\ (dirty /\ ~dirty') => BuilderStep
        /\ (~dirty /\ dirty') => (RebuildStep /\ Last(history').obs # dimensions) ]_vars

\* dirty was cleared by a builder call and later set again by a rebuild call.
C10_Witness ==
    \E i, j \in 1..Len(history) :
        /\ i < j
        /\ history[i].op = "builder" /\ PreDirty(i) /\ ~history[i].dirty
        /\ history[j].op = "rebuild" /\ ~PreDirty(j) /\ history[j].dirty

\* C11: every graph returned holds exactly four items, created in the order
\* colour image, depth image, draw pass, present node; the draw pass has no
\* inputs, the colour image as colour attachment, the depth image as
\* depth-stencil attachment and one draw group, the debug-line renderer; the
\* present node presents the colour image.
C11_AssemblyOrder ==
    \A i \in Built :
        LET g == history[i].graph IN
        /\ Len(g.images) = 2 /\ Len(g.nodes) = 2 /\ Len(g.order) = 4
        /\ g.order[1].kind = "image" /\ g.images[g.order[1].id].clear = "Color(0,0,0,1)"
        /\ g.order[2].kind = "image" /\ g.images[g.order[2].id].format = DepthFormat
        /\ g.order[3].kind = "node" /\ g.nodes[g.order[3].id].type = "RenderPass"
        /\ g.order[4].kind = "node" /\ g.nodes[g.order[4].id].type = "Present"
        /\ LET draw == g.nodes[g.order[3].id]
               present == g.nodes[g.order[4].id]
           IN  /\ draw.inputs = <<>>
               /\ draw.colors = <<g.order[1].id>>
               /\ draw.depth_stencil = <<g.order[2].id>>
               /\ draw.groups = <<"DrawDebugLines">>
               /\ present.image = <<g.order[1].id>>

\* Two graphs were returned in one run, the second not after a pending rebuild.
C11_Witness ==
    \E i, j \in Built : i < j /\ ~PreDirty(j)

\* The latest rebuild call before call i that took the differing branch.
LastChange(i) ==
    CHOOSE j \in 1..(i - 1) :
        /\ history[j].op = "rebuild" /\ history[j].obs # PreDims(j)
        /\ \A k \in (j + 1)..(i - 1) :
              ~(history[k].op = "rebuild" /\ history[k].obs # PreDims(k))

\* C12: in every graph returned the colour and depth images have the same
\* size, the one recorded by the latest rebuild call that observed a change
\* (converted to u32), and builder leaves dimensions as they were.
C12_ImageSizing ==
    \A i \in Built :
        LET g == history[i].graph
            d == history[LastChange(i)].obs[1]
        IN  /\ g.images[1].kind = g.images[2].kind
            /\ g.images[1].kind.width = AsU32(d.width)
            /\ g.images[1].kind.height = AsU32(d.height)
            /\ g.images[1].kind.layers = 1
            /\ history[i].dims = PreDims(i)
            /\ history[i].dims = Some(d)

\* A graph was built for a size whose width and height differ, after stable
\* ticks since the change.
C12_Witness ==
    \E i \in Built :
        /\ LastChange(i) < i - 1
        /\ history[i].dims[1].width # history[i].dims[1].height

C14_NoValidation ==
    \A i \in 1..Len(history) :
        /\ history[i].op = "rebuild" => history[i].outcome = "ok"
        /\ (history[i].op = "builder" /\ PreDims(i) # None
              /\ history[i].outcome # "SurfaceUnavailable")
           => /\ history[i].outcome = "ok"
              /\ \A n \in 1..2 :
                    LET kind == history[i].graph.images[n].kind
                        d == PreDims(i)[1]
                    IN  /\ kind.width = IF d.width <= 0 THEN 0 ELSE d.width
                        /\ kind.height = IF d.height <= 0 THEN 0 ELSE d.height

\* A graph was built for a negative width.
C14_Witness ==
    \E i \in Built : history[i].dims[1].width < 0

\* C15 as stated: with builder called exactly after the rebuild calls that
\* returned true, dimensions is present whenever rebuild returns true, and no
\* builder call fails on absent dimensions.
C15_TrueLicensesBuild ==
    DriverConformant =>
        \A i \in 1..Len(history) :
            /\ (history[i].op = "rebuild" /\ history[i].value) => history[i].dims # None
            /\ history[i].outcome # "ProgrammingError"

\* The calls so far follow the frame driver with a forced first build: builder
\* is called after every rebuild call that returned true and, possibly, after
\* the first rebuild call, and at no other time.
DriverConformantForced ==
    \A i \in 1..Len(history) :
        /\ (i > 1 /\ history[i - 1].op = "rebuild" /\ history[i - 1].value)
              => history[i].op = "builder"
        /\ history[i].op = "builder"
              => (i > 1 /\ history[i - 1].op = "rebuild" /\ (history[i - 1].value \/ i = 2))

\* The builder call that returned the latest graph.
LastBuilt == CHOOSE i \in Built : \A j \in Built : j <= i

\* C16 as stated: under the frame driver, whenever a graph has been built and
\* dirty is false, the latest graph has the size of dimensions.
C16_StalenessTracked ==
    (DriverConformantForced /\ Built # {} /\ ~dirty)
    => /\ dimensions # None
       /\ history[LastBuilt].graph.images[1].kind = WindowKind(dimensions[1])

\* A rebuild for size d is owed.
Pending(d) == dirty /\ dimensions = Some(d)

\* The latest graph has size d, which is still the size held, and nothing is
\* owed.
Delivered(d) ==
    /\ Built # {}
    /\ history[LastBuilt].graph.images[1].kind = WindowKind(d)
    /\ dimensions = Some(d)
    /\ ~dirty

C18_QuitTransition ==
    \A i \in 1..Len(transitions) :
        LET e == transitions[i].event
            quits == /\ e.variant = "Window"
                     /\ \/ e.what = "CloseRequested"
                        \/ (e.what = "KeyboardInput" /\ e.key = "Escape"
                              /\ e.state = "Pressed")
        IN  transitions[i].trans = IF quits THEN "Quit" ELSE "None"

\* Another key going down and a non-window Escape were ignored, then Escape
\* going down in the window quit.
C18_Witness ==
    /\ Len(transitions) = 3
    /\ transitions[1].event = StateEvent("Window", "KeyboardInput", "Space", "Pressed")
    /\ transitions[2].event = StateEvent("Input", "KeyPressed", "Escape", "Pressed")
    /\ transitions[3].event = StateEvent("Window", "KeyboardInput", "Escape", "Pressed")
    /\ transitions[3].trans = "Quit"
====
